---- MODULE Spec2Model ----
(***************************************************************************)
(* Model of ThrOMP (src/USER-OMP/thr_omp.cpp): the OpenMP threading        *)
(* support of LAMMPS.  The OpenMP build (_OPENMP defined) is modelled; the *)
(* serial build is its nthreads = 1 path.                                  *)
(*                                                                         *)
(* Real numbers are modelled by integers.  The only non-integer operation  *)
(* of the code is the multiplication by 0.5, which is exact on the even    *)
(* inputs the model draws (Half).                                          *)
(***************************************************************************)
EXTENDS Integers, Sequences, FiniteSets, TLC

\* ------------------------------------------------------------------ bounds
MaxThreads == 3
MaxInum == 5
MaxNall == 3
MaxWrites == 2
MaxCalls == 2

\* ------------------------------------------------------------------ state
VARIABLES
  nthreads,   \* lmp->comm->nthreads, the size of the thread team
  inum,       \* loop_setup_thr: number of work items of the loop
  nall,       \* loop_setup_thr / force_reduce_thr: rows of one force block
  loop,       \* per thread: the outputs of its loop_setup_thr call, or NoCall
  fall,       \* the force buffer, nthreads blocks of nall rows of 3 doubles
  fpre,       \* the force buffer as it was after the last force write
  pc,         \* per thread: its position in the parallel region
  rn,         \* per thread: loop variable n of force_reduce_thr
  rm,         \* per thread: loop variable m of force_reduce_thr
  nwrites,    \* number of force writes so far (bounded by MaxWrites)
  ncall,      \* per thread: number of force_reduce_thr calls it has made
  thr_style,  \* ThrOMP::thr_style, "PAIR" or "DIHEDRAL"
  atom,       \* lmp->atom: nlocal, nghost, nmax
  force,      \* lmp->force: newton, newton_pair, newton_bond
  thr,        \* the ThrOMP object: its high-water marks and per-thread arrays
  oob,        \* TRUE once the object accessed a per-atom row it never allocated
  evf,        \* the request flags of the current step (Pair/Dihedral fields)
  pair,       \* the Pair target: eng_vdwl, eng_coul, virial, eatom, vatom
  dihed,      \* the Dihedral target: energy, virial, eatom, vatom
  thr0,       \* the ThrOMP object as the last ev_setup_thr call left it
  bytes,      \* the value the last memory_usage_thr call returned, or -1
  ref,        \* a second ThrOMP object run with a single thread on the same calls
  refpair,    \* the Pair target of the single-thread run
  phase,      \* "idle" between steps, "tally" between setup and reduction
  nsteps,     \* number of ev_setup_thr calls so far (bounded by MaxSteps)
  ntally,     \* number of ev_tally_thr calls of the current step
  last        \* the last call made and its arguments

loopVars == <<inum, loop>>
forceVars == <<fall, fpre, pc, rn, rm, nwrites, ncall>>
evVars == <<thr_style, atom, force, thr, thr0, bytes, oob, evf, pair, dihed,
            ref, refpair, phase, nsteps, ntally, last>>
vars == <<nthreads, nall, loopVars, forceVars, evVars>>

Threads == 0 .. (nthreads - 1)
NoCall == [ifrom |-> -1, ito |-> -1, tid |-> -1, f |-> -1]

Min(a, b) == IF a < b THEN a ELSE b

\* ------------------------------------------------------- loop_setup_thr
\* The value of omp_get_thread_num() in thread t of the team.
omp_get_thread_num(t) == t

\* A chunk size that rounds down (mutant of idelta_of).
idelta_floor(n, nthr) == n \div nthr

\* const int idelta = 1 + inum/nthreads;
idelta_of(n, nthr) == 1 + (n \div nthr)

\* loop_setup_thr without the "if (ito > inum) ito = inum" clamp (mutant).
loop_setup_noclamp(t, inum_, nall_, nthreads_) ==
  IF nthreads_ > 1
    THEN LET idelta == idelta_of(inum_, nthreads_)
         IN [ifrom |-> t * idelta, ito |-> t * idelta + idelta,
             tid |-> t, f |-> nall_ * t]
    ELSE [ifrom |-> 0, ito |-> inum_, tid |-> 0, f |-> 0]

\* loop_setup_thr called by thread t; f is the row offset of the returned
\* pointer relative to the force array passed in.
loop_setup_thr(t, inum_, nall_, nthreads_) ==
  IF nthreads_ > 1
    THEN LET tid_ == omp_get_thread_num(t)
             idelta == idelta_of(inum_, nthreads_)
             ifrom_ == tid_ * idelta
             ito_ == ifrom_ + idelta
         IN [ifrom |-> ifrom_,
             ito |-> IF ito_ > inum_ THEN inum_ ELSE ito_,
             tid |-> tid_,
             f |-> nall_ * tid_]
    ELSE [ifrom |-> 0, ito |-> inum_, tid |-> 0, f |-> 0]

\* Thread t of the team calls loop_setup_thr.
LoopSetupThr(t) ==
  /\ loop[t] = NoCall
  /\ loop' = [loop EXCEPT ![t] = loop_setup_thr(t, inum, nall, nthreads)]
  /\ UNCHANGED <<nthreads, nall, inum, forceVars, evVars>>

ZeroRow == [k \in 0 .. 2 |-> 0]

\* ------------------------------------------------------ force_reduce_thr
\* The force contributions thread t computes: one vector a thread, different
\* in every component and from thread to thread.
ForceVecs(t) == {[k \in 0 .. 2 |-> (t + 1) * (k - 1) + k]}

AddRow3(a, b) == [k \in 0 .. 2 |-> a[k] + b[k]]

\* Thread t enters the parallel region: it calls loop_setup_thr and starts
\* computing forces.
StartThread(t) ==
  /\ pc[t] = "idle"
  /\ loop' = [loop EXCEPT ![t] = loop_setup_thr(t, inum, nall, nthreads)]
  /\ pc' = [pc EXCEPT ![t] = "tally"]
  /\ UNCHANGED <<nthreads, nall, inum, fall, fpre, rn, rm, nwrites, ncall,
                 evVars>>

\* Thread t adds a force contribution v to row m of the block that
\* loop_setup_thr returned to it (f[m][k] += ... in the caller's loop).
WriteForce(t, m, v) ==
  /\ pc[t] = "tally"
  /\ nwrites < MaxWrites
  /\ fall' = [fall EXCEPT ![loop[t].f + m] = AddRow3(@, v)]
  /\ fpre' = fall'
  /\ nwrites' = nwrites + 1
  /\ UNCHANGED <<nthreads, nall, loopVars, pc, rn, rm, ncall, evVars>>

\* Thread t calls force_reduce_thr: it returns at once when nthreads == 1,
\* and otherwise arrives at "#pragma omp barrier".
CallForceReduce(t) ==
  /\ pc[t] = "tally"
  /\ pc' = [pc EXCEPT ![t] = IF nthreads = 1 THEN "done" ELSE "barrier"]
  /\ ncall' = [ncall EXCEPT ![t] = @ + 1]
  /\ UNCHANGED <<nthreads, nall, loopVars, fall, fpre, rn, rm, nwrites, evVars>>

\* Thread t, back from force_reduce_thr, calls it again without writing any
\* force in between.
CallForceReduceAgain(t) ==
  /\ pc[t] = "done"
  /\ ncall[t] < MaxCalls
  /\ pc' = [pc EXCEPT ![t] = IF nthreads = 1 THEN "done" ELSE "barrier"]
  /\ ncall' = [ncall EXCEPT ![t] = @ + 1]
  /\ UNCHANGED <<nthreads, nall, loopVars, fall, fpre, rn, rm, nwrites, evVars>>

\* The barrier lets everybody through without waiting (mutant).
BarrierOpenNoWait(t) == TRUE

\* #pragma omp barrier in the call of thread t: open once every thread of the
\* team has arrived at it, that is, has made as many calls as t.
BarrierOpen(t) ==
  \A u \in Threads :
    /\ pc[u] \in {"barrier", "reduce", "done"}
    /\ ncall[u] >= ncall[t]

\* const int ifrom = tid*idelta;
red_ifrom(t) == t * idelta_of(nall, nthreads)

\* The row range of thread t without the upper clamp to nall (mutant).
red_ito_noclamp(t) == red_ifrom(t) + idelta_of(nall, nthreads)

\* const int ito = ((ifrom + idelta) > nall) ? nall : (ifrom + idelta);
red_ito(t) ==
  IF red_ifrom(t) + idelta_of(nall, nthreads) > nall
    THEN nall
    ELSE red_ifrom(t) + idelta_of(nall, nthreads)

\* Thread t leaves the barrier and enters "for (int n = 1; ...)" with m at
\* its first row; a thread with no row runs through the loops at once.
PassBarrier(t) ==
  /\ pc[t] = "barrier"
  /\ BarrierOpen(t)
  /\ pc' = [pc EXCEPT ![t] = IF red_ifrom(t) < red_ito(t) THEN "reduce"
                                                         ELSE "done"]
  /\ rn' = [rn EXCEPT ![t] = 1]
  /\ rm' = [rm EXCEPT ![t] = red_ifrom(t)]
  /\ UNCHANGED <<nthreads, nall, loopVars, fall, fpre, nwrites, ncall, evVars>>

\* The loop body without "f[m][k] = 0.0" (mutant).
reduce_row_nozero(buf, n, m) ==
  [buf EXCEPT ![m] = AddRow3(buf[m], buf[n * nall + m])]

\* The loop body with only "f[m][0] = 0.0" (mutant).
reduce_row_zero0(buf, n, m) ==
  [buf EXCEPT ![m] = AddRow3(buf[m], buf[n * nall + m]),
              ![n * nall + m] = [@ EXCEPT ![0] = 0]]

\* One iteration of the inner loop for block n and row m:
\* fall[m][k] += f[m][k]; f[m][k] = 0.0; with f = fall + n*nall.
reduce_row(buf, n, m) ==
  [buf EXCEPT ![m] = AddRow3(buf[m], buf[n * nall + m]),
              ![n * nall + m] = ZeroRow]

\* One iteration of the inner loop of thread t, followed by the loop control:
\* ++m, and at m == ito the next block (++n, m = ifrom) or the return.
ReduceRow(t) ==
  /\ pc[t] = "reduce"
  /\ rn[t] < nthreads
  /\ rm[t] < red_ito(t)
  /\ fall' = reduce_row(fall, rn[t], rm[t])
  /\ IF rm[t] + 1 < red_ito(t)
       THEN /\ rm' = [rm EXCEPT ![t] = @ + 1]
            /\ UNCHANGED <<rn, pc>>
       ELSE /\ rm' = [rm EXCEPT ![t] = red_ifrom(t)]
            /\ rn' = [rn EXCEPT ![t] = @ + 1]
            /\ pc' = [pc EXCEPT ![t] = IF rn[t] + 1 < nthreads THEN "reduce"
                                                              ELSE "done"]
  /\ UNCHANGED <<nthreads, nall, loopVars, fpre, nwrites, ncall, evVars>>

\* ------------------------------------------------- per-thread accumulators
MaxEvThreads == 2
MaxAtoms == 3
MaxSteps == 2
MaxTally == 2

\* Values an uninitialised double may hold.
Garbage == {0, 7}

ZeroSix == [k \in 0 .. 5 |-> 0]
Six(g) == [k \in 0 .. 5 |-> g]
AddSix(a, b) == [k \in 0 .. 5 |-> a[k] + b[k]]

\* 0.5*x; exact, the model draws even energies and forces.
Half(x) == x \div 2
HalfSix(v) == [k \in 0 .. 5 |-> Half(v[k])]

\* ThrOMP::ThrOMP for n threads: memory->create leaves the fixed-size arrays
\* uninitialised (g); the per-atom arrays are NULL and the marks 0.
ThrOMP_new(n, g) ==
  [maxeatom_thr |-> 0,
   maxvatom_thr |-> 0,
   eatom_n2 |-> 0,
   vatom_n2 |-> 0,
   eng_vdwl_thr |-> [t \in 0 .. (n - 1) |-> g],
   eng_coul_thr |-> [t \in 0 .. (n - 1) |-> g],
   eng_bond_thr |-> [t \in 0 .. (n - 1) |-> g],
   virial_thr |-> [t \in 0 .. (n - 1) |-> Six(g)],
   eatom_thr |-> [x \in {} |-> 0],
   vatom_thr |-> [x \in {} |-> ZeroSix]]

\* memory->grow(array, n1, n2, ...): the storage is reallocated to n1*n2
\* rows, the rows kept are those of the old storage in storage order, the new
\* rows are uninitialised (fill), and array[t] points at row t*n2.
grow(arr, n1, n2, fill) ==
  [x \in 0 .. (n1 * n2 - 1) |-> IF x \in DOMAIN arr THEN arr[x] ELSE fill]

\* The storage row that array[t][i] designates in an array of n2 rows a thread.
RowOf(n2, t, i) == t * n2 + i

\* ntotal of ev_setup_thr: the zeroing extent for the style's newton flag.
setup_ntotal(style, at, fo) ==
  IF (IF style = "PAIR" THEN fo.newton ELSE fo.newton_bond)
    THEN at.nlocal + at.nghost
    ELSE at.nlocal

\* The rows per thread handed to memory->grow for vatom_thr: the code passes
\* maxeatom_thr (me), not maxvatom_thr (mv).
vatom_grow_rows(me, mv) == me

\* ev_setup_thr on the object o of n threads; fl are the four flags, g the
\* content of rows that memory->grow leaves uninitialised.
ev_setup_thr(o, n, fl, style, at, fo, g) ==
  LET growe == fl.eflag_atom /\ at.nmax > o.maxeatom_thr
      me == IF growe THEN at.nmax ELSE o.maxeatom_thr
      en2 == IF growe THEN me ELSE o.eatom_n2
      eatom1 == IF growe THEN grow(o.eatom_thr, n, me, g) ELSE o.eatom_thr
      growv == fl.vflag_atom /\ at.nmax > o.maxvatom_thr
      mv == IF growv THEN at.nmax ELSE o.maxvatom_thr
      vn2 == IF growv THEN vatom_grow_rows(me, mv) ELSE o.vatom_n2
      vatom1 == IF growv THEN grow(o.vatom_thr, n, vn2, Six(g))
                ELSE o.vatom_thr
      ntotal == setup_ntotal(style, at, fo)
      ze == {RowOf(en2, t, i) : t \in 0 .. (n - 1), i \in 0 .. (ntotal - 1)}
      zv == {RowOf(vn2, t, i) : t \in 0 .. (n - 1), i \in 0 .. (ntotal - 1)}
  IN [maxeatom_thr |-> me,
      maxvatom_thr |-> mv,
      eatom_n2 |-> en2,
      vatom_n2 |-> vn2,
      eng_vdwl_thr |->
        [t \in 0 .. (n - 1) |->
          IF fl.eflag_global THEN 0 ELSE o.eng_vdwl_thr[t]],
      eng_coul_thr |->
        [t \in 0 .. (n - 1) |->
          IF fl.eflag_global THEN 0 ELSE o.eng_coul_thr[t]],
      eng_bond_thr |->
        [t \in 0 .. (n - 1) |->
          IF fl.eflag_global THEN 0 ELSE o.eng_bond_thr[t]],
      virial_thr |->
        [t \in 0 .. (n - 1) |->
          IF fl.vflag_global THEN ZeroSix ELSE o.virial_thr[t]],
      eatom_thr |->
        [x \in DOMAIN eatom1 |->
          IF fl.eflag_atom /\ x \in ze THEN 0 ELSE eatom1[x]],
      vatom_thr |->
        [x \in DOMAIN vatom1 |->
          IF fl.vflag_atom /\ x \in zv THEN ZeroSix ELSE vatom1[x]]]

\* TRUE iff the zeroing loops of ev_setup_thr, run on the object o2 that the
\* call leaves, wrote to a row outside the allocated storage.
setup_oob(o2, n, fl, style, at, fo) ==
  LET ntotal == setup_ntotal(style, at, fo)
  IN \E t \in 0 .. (n - 1), i \in 0 .. (ntotal - 1) :
       \/ fl.eflag_atom /\ RowOf(o2.eatom_n2, t, i) \notin DOMAIN o2.eatom_thr
       \/ fl.vflag_atom /\ RowOf(o2.vatom_n2, t, i) \notin DOMAIN o2.vatom_thr

\* arr[x] += val; a write outside the storage is lost.
AddAt(arr, x, val) ==
  IF x \in DOMAIN arr THEN [arr EXCEPT ![x] = @ + val] ELSE arr
AddSixAt(arr, x, val) ==
  IF x \in DOMAIN arr THEN [arr EXCEPT ![x] = AddSix(@, val)] ELSE arr

\* v[0..5] of ev_tally_thr.
tally_v(a) ==
  [k \in 0 .. 5 |->
    CASE k = 0 -> a.delx * a.delx * a.fpair
      [] k = 1 -> a.dely * a.dely * a.fpair
      [] k = 2 -> a.delz * a.delz * a.fpair
      [] k = 3 -> a.delx * a.dely * a.fpair
      [] k = 4 -> a.delx * a.delz * a.fpair
      [] OTHER -> a.dely * a.delz * a.fpair]

\* The accumulator slot ev_tally_thr writes to: its argument tid.
tally_slot(a) == a.tid

\* The energy part with the ownership test applied to eatom even under
\* newton_pair, and to the global energies only for i (mutant).
tally_energy_owned(o, a) ==
  LET s == tally_slot(a)
      evdwlhalf == Half(a.evdwl)
      ecoulhalf == Half(a.ecoul)
      dv == IF a.newton_pair THEN a.evdwl
            ELSE (IF a.i < a.nlocal THEN evdwlhalf ELSE 0)
      dc == IF a.newton_pair THEN a.ecoul
            ELSE (IF a.i < a.nlocal THEN ecoulhalf ELSE 0)
      epairhalf == Half(a.evdwl + a.ecoul)
      ea1 == IF a.i < a.nlocal
               THEN AddAt(o.eatom_thr, RowOf(o.eatom_n2, s, a.i), epairhalf)
               ELSE o.eatom_thr
      ea2 == IF a.j < a.nlocal
               THEN AddAt(ea1, RowOf(o.eatom_n2, s, a.j), epairhalf)
               ELSE ea1
  IN IF ~a.eflag_either THEN o
     ELSE [o EXCEPT
            !.eng_vdwl_thr[s] = IF a.eflag_global THEN @ + dv ELSE @,
            !.eng_coul_thr[s] = IF a.eflag_global THEN @ + dc ELSE @,
            !.eatom_thr = IF a.eflag_atom THEN ea2 ELSE @]

\* The energy part without the halving of the newton_pair == 0 branch: each
\* owned endpoint receives the full energies (mutant).
tally_energy_nohalf(o, a) ==
  LET s == tally_slot(a)
      dv == IF a.newton_pair THEN a.evdwl
            ELSE (IF a.i < a.nlocal THEN a.evdwl ELSE 0)
                 + (IF a.j < a.nlocal THEN a.evdwl ELSE 0)
      dc == IF a.newton_pair THEN a.ecoul
            ELSE (IF a.i < a.nlocal THEN a.ecoul ELSE 0)
                 + (IF a.j < a.nlocal THEN a.ecoul ELSE 0)
      epairhalf == Half(a.evdwl + a.ecoul)
      ea1 == IF a.newton_pair \/ a.i < a.nlocal
               THEN AddAt(o.eatom_thr, RowOf(o.eatom_n2, s, a.i), epairhalf)
               ELSE o.eatom_thr
      ea2 == IF a.newton_pair \/ a.j < a.nlocal
               THEN AddAt(ea1, RowOf(o.eatom_n2, s, a.j), epairhalf)
               ELSE ea1
  IN IF ~a.eflag_either THEN o
     ELSE [o EXCEPT
            !.eng_vdwl_thr[s] = IF a.eflag_global THEN @ + dv ELSE @,
            !.eng_coul_thr[s] = IF a.eflag_global THEN @ + dc ELSE @,
            !.eatom_thr = IF a.eflag_atom THEN ea2 ELSE @]

\* The energy part of ev_tally_thr (if (eflag_either) { ... }).
tally_energy(o, a) ==
  LET s == tally_slot(a)
      evdwlhalf == Half(a.evdwl)
      ecoulhalf == Half(a.ecoul)
      dv == IF a.newton_pair THEN a.evdwl
            ELSE (IF a.i < a.nlocal THEN evdwlhalf ELSE 0)
                 + (IF a.j < a.nlocal THEN evdwlhalf ELSE 0)
      dc == IF a.newton_pair THEN a.ecoul
            ELSE (IF a.i < a.nlocal THEN ecoulhalf ELSE 0)
                 + (IF a.j < a.nlocal THEN ecoulhalf ELSE 0)
      epairhalf == Half(a.evdwl + a.ecoul)
      ea1 == IF a.newton_pair \/ a.i < a.nlocal
               THEN AddAt(o.eatom_thr, RowOf(o.eatom_n2, s, a.i), epairhalf)
               ELSE o.eatom_thr
      ea2 == IF a.newton_pair \/ a.j < a.nlocal
               THEN AddAt(ea1, RowOf(o.eatom_n2, s, a.j), epairhalf)
               ELSE ea1
  IN IF ~a.eflag_either THEN o
     ELSE [o EXCEPT
            !.eng_vdwl_thr[s] = IF a.eflag_global THEN @ + dv ELSE @,
            !.eng_coul_thr[s] = IF a.eflag_global THEN @ + dc ELSE @,
            !.eatom_thr = IF a.eflag_atom THEN ea2 ELSE @]

\* The virial part with the per-atom update nested in "if (vflag_global)"
\* (mutant).
tally_virial_nested(o, a) ==
  LET s == tally_slot(a)
      v == tally_v(a)
      hv == HalfSix(v)
      vi == IF a.i < a.nlocal THEN hv ELSE ZeroSix
      vj == IF a.j < a.nlocal THEN hv ELSE ZeroSix
      dg == IF a.newton_pair THEN v ELSE AddSix(vi, vj)
      va1 == IF a.newton_pair \/ a.i < a.nlocal
               THEN AddSixAt(o.vatom_thr, RowOf(o.vatom_n2, s, a.i), hv)
               ELSE o.vatom_thr
      va2 == IF a.newton_pair \/ a.j < a.nlocal
               THEN AddSixAt(va1, RowOf(o.vatom_n2, s, a.j), hv)
               ELSE va1
  IN IF ~a.vflag_either THEN o
     ELSE [o EXCEPT
            !.virial_thr[s] = IF a.vflag_global THEN AddSix(@, dg) ELSE @,
            !.vatom_thr = IF a.vflag_global /\ a.vflag_atom THEN va2 ELSE @]

\* The virial part of ev_tally_thr (if (vflag_either) { ... }).
tally_virial(o, a) ==
  LET s == tally_slot(a)
      v == tally_v(a)
      hv == HalfSix(v)
      vi == IF a.i < a.nlocal THEN hv ELSE ZeroSix
      vj == IF a.j < a.nlocal THEN hv ELSE ZeroSix
      dg == IF a.newton_pair THEN v ELSE AddSix(vi, vj)
      va1 == IF a.newton_pair \/ a.i < a.nlocal
               THEN AddSixAt(o.vatom_thr, RowOf(o.vatom_n2, s, a.i), hv)
               ELSE o.vatom_thr
      va2 == IF a.newton_pair \/ a.j < a.nlocal
               THEN AddSixAt(va1, RowOf(o.vatom_n2, s, a.j), hv)
               ELSE va1
  IN IF ~a.vflag_either THEN o
     ELSE [o EXCEPT
            !.virial_thr[s] = IF a.vflag_global THEN AddSix(@, dg) ELSE @,
            !.vatom_thr = IF a.vflag_atom THEN va2 ELSE @]

\* ev_tally_thr on the object o with the argument record a.
ev_tally_thr(o, a) == tally_virial(tally_energy(o, a), a)

\* TRUE iff this ev_tally_thr call writes a per-atom row outside the storage.
tally_oob(o, a) ==
  \E x \in {a.i, a.j} :
    /\ a.newton_pair \/ x < a.nlocal
    /\ \/ /\ a.eflag_either /\ a.eflag_atom
          /\ RowOf(o.eatom_n2, a.tid, x) \notin DOMAIN o.eatom_thr
       \/ /\ a.vflag_either /\ a.vflag_atom
          /\ RowOf(o.vatom_n2, a.tid, x) \notin DOMAIN o.vatom_thr

RECURSIVE SumTo(_, _)
\* f[0] + ... + f[n].
SumTo(f, n) == IF n < 0 THEN 0 ELSE f[n] + SumTo(f, n - 1)

RECURSIVE SumSixTo(_, _)
SumSixTo(f, n) == IF n < 0 THEN ZeroSix ELSE AddSix(f[n], SumSixTo(f, n - 1))

\* The value read at arr[x]; outside the storage the read yields g.
ReadAt(arr, x, g) == IF x \in DOMAIN arr THEN arr[x] ELSE g

\* ntotal of ev_reduce_thr(Pair *) / ev_reduce_thr(Dihedral *).
reduce_ntotal(newton, at) ==
  IF newton THEN at.nlocal + at.nghost ELSE at.nlocal

\* The per-atom part folding every row of the target, whatever ntotal is
\* (mutant).
reduce_atoms_all(o, n, tg, fl, ntotal, g) ==
  [tg EXCEPT
    !.vatom =
      [i \in DOMAIN tg.vatom |->
        IF fl.vflag_either /\ fl.vflag_atom
          THEN AddSix(tg.vatom[i],
                 SumSixTo([t \in 0 .. (n - 1) |->
                   ReadAt(o.vatom_thr, RowOf(o.vatom_n2, t, i), Six(g))],
                   n - 1))
          ELSE tg.vatom[i]],
    !.eatom =
      [i \in DOMAIN tg.eatom |->
        IF fl.eflag_atom
          THEN tg.eatom[i] +
                 SumTo([t \in 0 .. (n - 1) |->
                   ReadAt(o.eatom_thr, RowOf(o.eatom_n2, t, i), g)], n - 1)
          ELSE tg.eatom[i]]]

\* The per-atom part of both ev_reduce_thr variants: eatom and vatom of the
\* target tg after the loop over the n thread slots of o.
reduce_atoms(o, n, tg, fl, ntotal, g) ==
  [tg EXCEPT
    !.vatom =
      [i \in DOMAIN tg.vatom |->
        IF fl.vflag_either /\ fl.vflag_atom /\ i < ntotal
          THEN AddSix(tg.vatom[i],
                 SumSixTo([t \in 0 .. (n - 1) |->
                   ReadAt(o.vatom_thr, RowOf(o.vatom_n2, t, i), Six(g))],
                   n - 1))
          ELSE tg.vatom[i]],
    !.eatom =
      [i \in DOMAIN tg.eatom |->
        IF fl.eflag_atom /\ i < ntotal
          THEN tg.eatom[i] +
                 SumTo([t \in 0 .. (n - 1) |->
                   ReadAt(o.eatom_thr, RowOf(o.eatom_n2, t, i), g)], n - 1)
          ELSE tg.eatom[i]]]

\* ev_reduce_thr(Pair *pair) on the object o of n threads.
ev_reduce_thr_pair(o, n, p, fl, at, fo, g) ==
  LET q == reduce_atoms(o, n, p, fl, reduce_ntotal(fo.newton, at), g)
  IN [q EXCEPT
       !.eng_vdwl = @ + SumTo(o.eng_vdwl_thr, n - 1),
       !.eng_coul = @ + SumTo(o.eng_coul_thr, n - 1),
       !.virial = IF fl.vflag_either
                    THEN AddSix(@, SumSixTo(o.virial_thr, n - 1))
                    ELSE @]

\* ev_reduce_thr(Dihedral *dihed) on the object o of n threads.
ev_reduce_thr_dihed(o, n, d, fl, at, fo, g) ==
  LET q == reduce_atoms(o, n, d, fl, reduce_ntotal(fo.newton_bond, at), g)
  IN [q EXCEPT
       !.energy = @ + SumTo(o.eng_bond_thr, n - 1),
       !.virial = IF fl.vflag_either
                    THEN AddSix(@, SumSixTo(o.virial_thr, n - 1))
                    ELSE @]

\* TRUE iff ev_reduce_thr reads a per-atom row outside the storage.
reduce_oob(o, n, fl, ntotal) ==
  \E t \in 0 .. (n - 1), i \in 0 .. (ntotal - 1) :
    \/ fl.eflag_atom /\ RowOf(o.eatom_n2, t, i) \notin DOMAIN o.eatom_thr
    \/ /\ fl.vflag_either /\ fl.vflag_atom
       /\ RowOf(o.vatom_n2, t, i) \notin DOMAIN o.vatom_thr

\* sizeof(double).
SizeofDouble == 8

\* memory_usage_thr() on the object o of n threads.
memory_usage_thr(o, n) ==
  n * (3 + 7) * SizeofDouble
    + n * o.maxeatom_thr * SizeofDouble
    + n * o.maxvatom_thr * 6 * SizeofDouble

\* ------------------------------------------------------------ the callers
\* The flags a Pair or Dihedral holds after its ev_setup: each "either" flag
\* is the OR of the global and the per-atom flag.
Flags(eg, vg, ea, va) ==
  [eflag_either |-> eg \/ ea, eflag_global |-> eg, eflag_atom |-> ea,
   vflag_either |-> vg \/ va, vflag_global |-> vg, vflag_atom |-> va]

\* lmp->force after the newton command: newton = newton_pair || newton_bond.
ForceConfigs ==
  {[newton |-> np \/ nb, newton_pair |-> np, newton_bond |-> nb] :
     np \in BOOLEAN, nb \in BOOLEAN}

\* lmp->atom: at least one owned atom, at least two atoms, and
\* nlocal + nghost <= nmax.
AtomConfigs ==
  {at \in [nlocal : 1 .. (MaxAtoms - 1), nghost : 0 .. (MaxAtoms - 1),
           nmax : 2 .. MaxAtoms] :
     at.nlocal + at.nghost >= 2 /\ at.nlocal + at.nghost <= at.nmax}

\* The pair interactions the callers tally: energies and fpair even.
Inter ==
  {[evdwl |-> 2, ecoul |-> 0, fpair |-> 2, delx |-> 1, dely |-> 2, delz |-> 3],
   [evdwl |-> 4, ecoul |-> 2, fpair |-> -2, delx |-> 1, dely |-> 0, delz |-> 2]}

NoArgs ==
  [i |-> 0, j |-> 0, nlocal |-> 0, newton_pair |-> FALSE,
   eflag_either |-> FALSE, eflag_global |-> FALSE,
   vflag_either |-> FALSE, vflag_global |-> FALSE,
   eflag_atom |-> FALSE, vflag_atom |-> FALSE,
   evdwl |-> 0, ecoul |-> 0, fpair |-> 0, delx |-> 0, dely |-> 0, delz |-> 0,
   tid |-> 0]

\* The arguments of an ev_tally_thr call of thread t for the pair (i, j) with
\* the interaction x, under the flags of the current step.
TallyArgs(t, i, j, x) ==
  [i |-> i, j |-> j, nlocal |-> atom.nlocal, newton_pair |-> force.newton_pair,
   eflag_either |-> evf.eflag_either, eflag_global |-> evf.eflag_global,
   vflag_either |-> evf.vflag_either, vflag_global |-> evf.vflag_global,
   eflag_atom |-> evf.eflag_atom, vflag_atom |-> evf.vflag_atom,
   evdwl |-> x.evdwl, ecoul |-> x.ecoul, fpair |-> x.fpair,
   delx |-> x.delx, dely |-> x.dely, delz |-> x.delz, tid |-> t]

ZeroPair ==
  [eng_vdwl |-> 0, eng_coul |-> 0, virial |-> ZeroSix,
   eatom |-> [i \in 0 .. (MaxAtoms - 1) |-> 0],
   vatom |-> [i \in 0 .. (MaxAtoms - 1) |-> ZeroSix]]

ZeroDihedral ==
  [energy |-> 0, virial |-> ZeroSix,
   eatom |-> [i \in 0 .. (MaxAtoms - 1) |-> 0],
   vatom |-> [i \in 0 .. (MaxAtoms - 1) |-> ZeroSix]]

\* The atom counts change between two steps.
SetAtoms(at) ==
  /\ at # atom
  /\ atom' = at
  /\ last' = [op |-> "atoms", a |-> NoArgs]
  /\ UNCHANGED <<nthreads, nall, loopVars, forceVars, thr_style, force, thr,
                 thr0, bytes, oob, evf, pair, dihed, ref, refpair, phase,
                 nsteps, ntally>>

\* The contents memory->grow may leave in new rows, if this call grows.
GrowFill(fl) ==
  IF \/ fl.eflag_atom /\ atom.nmax > thr.maxeatom_thr
     \/ fl.vflag_atom /\ atom.nmax > thr.maxvatom_thr
    THEN Garbage
    ELSE {0}

\* The driver starts a step: ev_setup_thr(eflag_global, vflag_global,
\* eflag_atom, vflag_atom), outside the parallel region.
EvSetupThr(eg, vg, ea, va) ==
  /\ nsteps < MaxSteps
  /\ \E g \in GrowFill(Flags(eg, vg, ea, va)) :
       /\ thr' = ev_setup_thr(thr, nthreads, Flags(eg, vg, ea, va), thr_style,
                              atom, force, g)
       /\ ref' = ev_setup_thr(ref, 1, Flags(eg, vg, ea, va), thr_style,
                              atom, force, g)
  /\ oob' = (oob \/ setup_oob(thr', nthreads, Flags(eg, vg, ea, va),
                              thr_style, atom, force))
  /\ thr0' = thr'
  /\ evf' = Flags(eg, vg, ea, va)
  /\ phase' = "tally"
  /\ nsteps' = nsteps + 1
  /\ ntally' = 0
  /\ last' = [op |-> "setup", a |-> NoArgs]
  /\ UNCHANGED <<nthreads, nall, loopVars, forceVars, thr_style, atom, force,
                 bytes, pair, dihed, refpair>>

\* Thread t tallies the interaction x of the pair (i, j).
EvTallyThr(t, i, j, x) ==
  /\ phase = "tally"
  /\ ntally < MaxTally
  /\ i # j
  /\ thr' = ev_tally_thr(thr, TallyArgs(t, i, j, x))
  /\ ref' = ev_tally_thr(ref, TallyArgs(0, i, j, x))
  /\ oob' = (oob \/ tally_oob(thr, TallyArgs(t, i, j, x)))
  /\ ntally' = ntally + 1
  /\ last' = [op |-> "tally", a |-> TallyArgs(t, i, j, x)]
  /\ UNCHANGED <<nthreads, nall, loopVars, forceVars, thr_style, atom, force,
                 thr0, bytes, evf, pair, dihed, refpair, phase, nsteps>>

\* The host asks for the memory usage of the object.
MemoryUsageThr ==
  /\ last.op # "memory"
  /\ bytes' = memory_usage_thr(thr, nthreads)
  /\ last' = [op |-> "memory", a |-> NoArgs]
  /\ UNCHANGED <<nthreads, nall, loopVars, forceVars, thr_style, atom, force,
                 thr, thr0, oob, evf, pair, dihed, ref, refpair, phase, nsteps,
                 ntally>>

\* The values a read outside the storage may yield, if this call makes one.
ReadFill(newton) ==
  IF \/ reduce_oob(thr, nthreads, evf, reduce_ntotal(newton, atom))
     \/ reduce_oob(ref, 1, evf, reduce_ntotal(newton, atom))
    THEN Garbage
    ELSE {0}

\* After the parallel region the Pair calls ev_reduce_thr(this).
EvReduceThrPair ==
  /\ phase = "tally"
  /\ thr_style = "PAIR"
  /\ \E g \in ReadFill(force.newton) :
       /\ pair' = ev_reduce_thr_pair(thr, nthreads, pair, evf, atom, force, g)
       /\ refpair' = ev_reduce_thr_pair(ref, 1, refpair, evf, atom, force, g)
  /\ oob' = (oob \/ reduce_oob(thr, nthreads, evf,
                               reduce_ntotal(force.newton, atom)))
  /\ phase' = "idle"
  /\ last' = [op |-> "reduce", a |-> NoArgs]
  /\ UNCHANGED <<nthreads, nall, loopVars, forceVars, thr_style, atom, force,
                 thr, thr0, bytes, evf, dihed, ref, nsteps, ntally>>

\* After the parallel region the Dihedral calls ev_reduce_thr(this).
EvReduceThrDihedral ==
  /\ phase = "tally"
  /\ thr_style = "DIHEDRAL"
  /\ \E g \in ReadFill(force.newton_bond) :
       dihed' = ev_reduce_thr_dihed(thr, nthreads, dihed, evf, atom, force, g)
  /\ oob' = (oob \/ reduce_oob(thr, nthreads, evf,
                               reduce_ntotal(force.newton_bond, atom)))
  /\ phase' = "idle"
  /\ last' = [op |-> "reduce", a |-> NoArgs]
  /\ UNCHANGED <<nthreads, nall, loopVars, forceVars, thr_style, atom, force,
                 thr, thr0, bytes, evf, pair, ref, refpair, nsteps, ntally>>

\* The Pair calls ev_reduce_thr(this) a second time, with no ev_setup_thr and
\* no tally in between.
EvReduceThrPairAgain ==
  /\ phase = "idle"
  /\ last.op = "reduce"
  /\ thr_style = "PAIR"
  /\ \E g \in ReadFill(force.newton) :
       /\ pair' = ev_reduce_thr_pair(thr, nthreads, pair, evf, atom, force, g)
       /\ refpair' = ev_reduce_thr_pair(ref, 1, refpair, evf, atom, force, g)
  /\ oob' = (oob \/ reduce_oob(thr, nthreads, evf,
                               reduce_ntotal(force.newton, atom)))
  /\ last' = [op |-> "reduce2", a |-> NoArgs]
  /\ UNCHANGED <<nthreads, nall, loopVars, forceVars, thr_style, atom, force,
                 thr, thr0, bytes, evf, dihed, ref, phase, nsteps, ntally>>

\* The Dihedral calls ev_reduce_thr(this) a second time.
EvReduceThrDihedralAgain ==
  /\ phase = "idle"
  /\ last.op = "reduce"
  /\ thr_style = "DIHEDRAL"
  /\ \E g \in ReadFill(force.newton_bond) :
       dihed' = ev_reduce_thr_dihed(thr, nthreads, dihed, evf, atom, force, g)
  /\ oob' = (oob \/ reduce_oob(thr, nthreads, evf,
                               reduce_ntotal(force.newton_bond, atom)))
  /\ last' = [op |-> "reduce2", a |-> NoArgs]
  /\ UNCHANGED <<nthreads, nall, loopVars, forceVars, thr_style, atom, force,
                 thr, thr0, bytes, evf, pair, ref, refpair, phase, nsteps,
                 ntally>>

\* ------------------------------------------------------- specifications
\* The energy/virial state while only the loop and force routines run.
EvQuiet ==
  /\ thr_style = "PAIR"
  /\ atom = [nlocal |-> 1, nghost |-> 1, nmax |-> 2]
  /\ force = [newton |-> TRUE, newton_pair |-> TRUE, newton_bond |-> TRUE]
  /\ thr = ThrOMP_new(nthreads, 0)
  /\ thr0 = thr
  /\ bytes = -1
  /\ ref = ThrOMP_new(1, 0)
  /\ oob = FALSE
  /\ evf = Flags(FALSE, FALSE, FALSE, FALSE)
  /\ pair = ZeroPair
  /\ dihed = ZeroDihedral
  /\ refpair = ZeroPair
  /\ phase = "idle"
  /\ nsteps = 0
  /\ ntally = 0
  /\ last = [op |-> "none", a |-> NoArgs]

InitLoop ==
  /\ nthreads \in 1 .. MaxThreads
  /\ inum \in 0 .. MaxInum
  /\ nall \in 0 .. MaxNall
  /\ loop = [t \in Threads |-> NoCall]
  /\ fall = [r \in 0 .. (nthreads * nall - 1) |-> ZeroRow]
  /\ fpre = fall
  /\ pc = [t \in Threads |-> "idle"]
  /\ rn = [t \in Threads |-> 0]
  /\ rm = [t \in Threads |-> 0]
  /\ nwrites = 0
  /\ ncall = [t \in Threads |-> 0]
  /\ EvQuiet

NextLoop == \E t \in Threads : LoopSetupThr(t)

SpecLoop == InitLoop /\ [][NextLoop]_vars

InitForce ==
  /\ InitLoop
  /\ inum = 0

NextForce ==
  \E t \in Threads :
    \/ StartThread(t)
    \/ \E m \in 0 .. (nall - 1), v \in ForceVecs(t) : WriteForce(t, m, v)
    \/ CallForceReduce(t)
    \/ PassBarrier(t)
    \/ ReduceRow(t)

SpecForce == InitForce /\ [][NextForce]_vars

\* The parallel region with repeated force_reduce_thr calls of the team.
NextForceAgain ==
  \/ NextForce
  \/ \E t \in Threads : CallForceReduceAgain(t)

SpecForceAgain == InitForce /\ [][NextForceAgain]_vars

\* A freshly constructed ThrOMP object of either style, before the first step.
InitEV ==
  /\ nthreads \in 1 .. MaxEvThreads
  /\ inum = 0
  /\ nall = 0
  /\ loop = [t \in Threads |-> NoCall]
  /\ fall = [r \in {} |-> ZeroRow]
  /\ fpre = fall
  /\ pc = [t \in Threads |-> "idle"]
  /\ rn = [t \in Threads |-> 0]
  /\ rm = [t \in Threads |-> 0]
  /\ nwrites = 0
  /\ ncall = [t \in Threads |-> 0]
  /\ thr_style \in {"PAIR", "DIHEDRAL"}
  /\ atom \in AtomConfigs
  /\ force \in ForceConfigs
  /\ \E g \in Garbage :
       /\ thr = ThrOMP_new(nthreads, g)
       /\ ref = ThrOMP_new(1, g)
  /\ thr0 = thr
  /\ bytes = -1
  /\ oob = FALSE
  /\ evf = Flags(FALSE, FALSE, FALSE, FALSE)
  /\ pair = ZeroPair
  /\ dihed = ZeroDihedral
  /\ refpair = ZeroPair
  /\ phase = "idle"
  /\ nsteps = 0
  /\ ntally = 0
  /\ last = [op |-> "none", a |-> NoArgs]

\* Any sequence of ev_setup_thr calls, the atom counts changing in between.
NextSetup ==
  \/ \E at \in AtomConfigs : SetAtoms(at)
  \/ \E eg \in BOOLEAN, vg \in BOOLEAN, ea \in BOOLEAN, va \in BOOLEAN :
       EvSetupThr(eg, vg, ea, va)

InitSetup ==
  /\ InitEV
  /\ ~force.newton_pair

SpecSetup == InitSetup /\ [][NextSetup]_vars

\* Any sequence of ev_setup_thr calls with memory_usage_thr queries in between.
NextMemory ==
  \/ NextSetup
  \/ MemoryUsageThr

SpecMemory == InitSetup /\ [][NextMemory]_vars

\* The first step of a fresh object: setup, the tallies of the team, reduction.
NextEV ==
  \/ \E eg \in BOOLEAN, vg \in BOOLEAN, ea \in BOOLEAN, va \in BOOLEAN :
       nsteps = 0 /\ EvSetupThr(eg, vg, ea, va)
  \/ \E t \in Threads, i \in 0 .. (atom.nlocal + atom.nghost - 1),
        j \in 0 .. (atom.nlocal + atom.nghost - 1), x \in Inter :
       EvTallyThr(t, i, j, x)
  \/ EvReduceThrPair
  \/ EvReduceThrDihedral

SpecEV == InitEV /\ [][NextEV]_vars

\* The first step of a fresh object up to its first tally.
NextTally ==
  \/ \E eg \in BOOLEAN, vg \in BOOLEAN, ea \in BOOLEAN, va \in BOOLEAN :
       nsteps = 0 /\ EvSetupThr(eg, vg, ea, va)
  \/ \E t \in Threads, i \in 0 .. (atom.nlocal + atom.nghost - 1),
        j \in 0 .. (atom.nlocal + atom.nghost - 1), x \in Inter :
       ntally = 0 /\ EvTallyThr(t, i, j, x)

SpecTally == InitEV /\ [][NextTally]_vars

\* The first step of a fresh object, its reduction called once or twice.
NextAgain ==
  \/ NextEV
  \/ EvReduceThrPairAgain
  \/ EvReduceThrDihedralAgain

SpecAgain == InitEV /\ [][NextAgain]_vars

\* A two-thread Pair object over several steps whose atom counts change; the
\* steps before the last tally nothing, the last step tallies one interaction.
InitGrow ==
  /\ InitEV
  /\ nthreads = MaxEvThreads
  /\ thr_style = "PAIR"
  /\ force.newton_pair
  /\ force.newton_bond

NextGrow ==
  \/ \E at \in AtomConfigs : SetAtoms(at)
  \/ \E eg \in BOOLEAN, vg \in BOOLEAN, ea \in BOOLEAN, va \in BOOLEAN :
       EvSetupThr(eg, vg, ea, va)
  \/ \E t \in Threads, i \in 0 .. (atom.nlocal + atom.nghost - 1),
        j \in 0 .. (atom.nlocal + atom.nghost - 1), x \in Inter :
       /\ last.op = "setup"
       /\ nsteps = MaxSteps
       /\ EvTallyThr(t, i, j, x)

SpecGrow == InitGrow /\ [][NextGrow]_vars

\* A two-thread Pair object over several whole steps: setup, at most one
\* tally of the pair (0, 1) by any thread, reduction.
NextSteps ==
  \/ \E eg \in BOOLEAN, vg \in BOOLEAN, ea \in BOOLEAN, va \in BOOLEAN :
       phase = "idle" /\ EvSetupThr(eg, vg, ea, va)
  \/ \E t \in Threads, x \in Inter : ntally = 0 /\ EvTallyThr(t, 0, 1, x)
  \/ EvReduceThrPair

SpecSteps == InitGrow /\ [][NextSteps]_vars

\* ------------------------------------------------------------------ claims
Items(r) == r.ifrom .. (r.ito - 1)
Called == {t \in Threads : loop[t] # NoCall}

\* C1: the ranges [ifrom, ito) that loop_setup_thr hands to the threads of a
\* team are pairwise disjoint and, once every thread has called, every work
\* item of [0, inum) is owned by exactly one thread and no other item is owned.
C1_RangesPartition ==
  /\ \A t, u \in Called : t # u => Items(loop[t]) \cap Items(loop[u]) = {}
  /\ Called = Threads =>
       /\ UNION {Items(loop[t]) : t \in Threads} = 0 .. (inum - 1)
       /\ \A k \in 0 .. (inum - 1) :
            Cardinality({t \in Threads : k \in Items(loop[t])}) = 1

C1_Witness ==
  /\ Called = Threads
  /\ nthreads = 3
  /\ inum = 4
  /\ Items(loop[2]) = {}
  /\ Items(loop[1]) = {2, 3}

CeilDiv(a, b) == (a + b - 1) \div b

\* C2 as stated: in the multi-thread path thread t owns the work items of
\* [t*chunk, min(inum, (t+1)*chunk)) with chunk = ceil(inum / nthreads), and
\* gets the private base f + t*nall.
C2_CeilChunk ==
  \A t \in Called :
    nthreads > 1 =>
      /\ Items(loop[t]) =
           (t * CeilDiv(inum, nthreads)) ..
             (Min(inum, (t + 1) * CeilDiv(inum, nthreads)) - 1)
      /\ loop[t].f = t * nall

\* C2 amended: in the multi-thread path the chunk size is
\* floor(inum / nthreads) + 1; thread t gets ifrom = t*chunk,
\* ito = min(inum, (t+1)*chunk), tid = t and the private base f + t*nall.
C2_FloorPlusOneChunk ==
  \A t \in Called :
    nthreads > 1 =>
      LET chunk == (inum \div nthreads) + 1
      IN /\ loop[t].ifrom = t * chunk
         /\ loop[t].ito = Min(inum, (t + 1) * chunk)
         /\ loop[t].tid = t
         /\ loop[t].f = t * nall

C2_Witness ==
  /\ nthreads = 2
  /\ inum = 4
  /\ nall = 3
  /\ Called = Threads
  /\ loop[0].ito = 3
  /\ loop[1] = [ifrom |-> 3, ito |-> 4, tid |-> 1, f |-> 3]

RECURSIVE BlockSum(_, _, _)
\* Sum over the blocks 0 .. n of row m of a force buffer.
BlockSum(buf, n, m) ==
  IF n < 0 THEN ZeroRow
  ELSE AddRow3(buf[n * nall + m], BlockSum(buf, n - 1, m))

AllDone == \A t \in Threads : pc[t] = "done"

\* C3: once every thread of a team of more than one thread has completed
\* force_reduce_thr, every row of block 0 holds the sum of the pre-reduction
\* values of that row over all blocks, and the rows of the other blocks are 0.
C3_ForceReduced ==
  (nthreads > 1 /\ AllDone) =>
    \A m \in 0 .. (nall - 1) :
      /\ fall[m] = BlockSum(fpre, nthreads - 1, m)
      /\ \A n \in 1 .. (nthreads - 1) : fall[n * nall + m] = ZeroRow

C3_Witness ==
  /\ nthreads = 3
  /\ nall = 3
  /\ AllDone
  /\ nwrites = 2
  /\ fpre[2 * nall + 2] # ZeroRow
  /\ fpre[nall + 2] # ZeroRow
  /\ fall[2] = AddRow3(fpre[nall + 2], fpre[2 * nall + 2])

\* C4: while some thread is in the combination phase of force_reduce_thr, no
\* thread of the team is still in the tally phase (or has not started).
C4_BarrierSeparates ==
  (\E t \in Threads : pc[t] = "reduce") =>
    \A u \in Threads : pc[u] \notin {"idle", "tally"}

C4_Witness ==
  /\ nthreads = 3
  /\ pc[0] = "reduce"
  /\ pc[1] = "barrier"
  /\ pc[2] = "done"
  /\ nwrites > 0

\* C12: once the whole team has called force_reduce_thr a second time with no
\* force written in between, no step of the second reduction changes the
\* force buffer: block 0 keeps the sum of the first reduction and the rows of
\* the blocks 1 .. N-1 stay 0.
C12_SecondReduceNoChange ==
  [][(nthreads > 1 /\ \A t \in Threads : ncall[t] >= 2) =>
      /\ fall' = fall
      /\ \A m \in 0 .. (nall - 1) :
           /\ fall'[m] = BlockSum(fpre, nthreads - 1, m)
           /\ \A n \in 1 .. (nthreads - 1) : fall'[n * nall + m] = ZeroRow]_vars

C12_Witness ==
  /\ nthreads = 3
  /\ nall = 3
  /\ AllDone
  /\ \A t \in Threads : ncall[t] = 2
  /\ nwrites = 2
  /\ fpre[nall] # ZeroRow
  /\ fpre[2 * nall + 2] # ZeroRow
  /\ fall[0] = fpre[nall]
  /\ fall[2] = fpre[2 * nall + 2]

\* The rows thread t combines in force_reduce_thr.
RedRows(t) == red_ifrom(t) .. (red_ito(t) - 1)

\* C15: the row ranges [ifrom, ito) of the combination phase are pairwise
\* disjoint and cover [0, nall), every combining thread works on a row of its
\* own range, and so no two combining threads are at the same row.
C15_RowsPartition ==
  nthreads > 1 =>
    /\ \A t, u \in Threads : t # u => RedRows(t) \cap RedRows(u) = {}
    /\ UNION {RedRows(t) : t \in Threads} = 0 .. (nall - 1)
    /\ \A t \in Threads : pc[t] = "reduce" => rm[t] \in RedRows(t)
    /\ \A t, u \in Threads :
         (t # u /\ pc[t] = "reduce" /\ pc[u] = "reduce") => rm[t] # rm[u]

C15_Witness ==
  /\ nthreads = 3
  /\ nall = 3
  /\ pc[0] = "reduce"
  /\ pc[1] = "reduce"
  /\ rm[0] = 1
  /\ rm[1] = 2
  /\ rn[0] = 2
  /\ rn[1] = 1
  /\ nwrites = 2

\* The per-atom energy and virial of atom i in the slot of thread t.
EatomOf(o, t, i) == o.eatom_thr[RowOf(o.eatom_n2, t, i)]
VatomOf(o, t, i) == o.vatom_thr[RowOf(o.vatom_n2, t, i)]

\* A step of the model that is an ev_tally_thr call; its arguments are last'.a.
IsTally == ntally' = ntally + 1

\* C5: after setup, the tallies of the team and ev_reduce_thr(Pair), every
\* requested canonical quantity (eng_vdwl and eng_coul under eflag_global,
\* virial under vflag_global, eatom under eflag_atom, vatom under vflag_atom)
\* equals the one obtained by tallying the same interactions on one thread.
C5_SameAsSingleThread ==
  (thr_style = "PAIR" /\ last.op = "reduce" /\ ntally > 0) =>
    /\ evf.eflag_global =>
         /\ pair.eng_vdwl = refpair.eng_vdwl
         /\ pair.eng_coul = refpair.eng_coul
    /\ evf.vflag_global => pair.virial = refpair.virial
    /\ evf.eflag_atom => pair.eatom = refpair.eatom
    /\ evf.vflag_atom => pair.vatom = refpair.vatom

\* C6: an ev_tally_thr call with thread id tid leaves the accumulators of
\* every other thread slot, the canonical targets and the force buffer as
\* they were.
C6_OnlyOwnSlot ==
  [][IsTally =>
      /\ \A u \in Threads \ {last'.a.tid} :
           /\ thr'.eng_vdwl_thr[u] = thr.eng_vdwl_thr[u]
           /\ thr'.eng_coul_thr[u] = thr.eng_coul_thr[u]
           /\ thr'.eng_bond_thr[u] = thr.eng_bond_thr[u]
           /\ thr'.virial_thr[u] = thr.virial_thr[u]
           /\ \A i \in 0 .. (thr.eatom_n2 - 1) :
                EatomOf(thr', u, i) = EatomOf(thr, u, i)
           /\ \A i \in 0 .. (thr.vatom_n2 - 1) :
                VatomOf(thr', u, i) = VatomOf(thr, u, i)
      /\ pair' = pair
      /\ dihed' = dihed
      /\ fall' = fall]_vars

\* C7: with newton_pair set, one ev_tally_thr call for the pair (i, j) adds
\* evdwl to eng_vdwl_thr[tid] and ecoul to eng_coul_thr[tid] (when the global
\* energy is requested) and (evdwl + ecoul)/2 to eatom_thr[tid][i] and to
\* eatom_thr[tid][j] (when the per-atom energy is requested), owned or ghost.
C7_NewtonTally ==
  [][(IsTally /\ last'.a.newton_pair) =>
      LET a == last'.a
      IN /\ a.eflag_global =>
              /\ thr'.eng_vdwl_thr[a.tid] = thr.eng_vdwl_thr[a.tid] + a.evdwl
              /\ thr'.eng_coul_thr[a.tid] = thr.eng_coul_thr[a.tid] + a.ecoul
         /\ a.eflag_atom =>
              \A x \in {a.i, a.j} :
                2 * (EatomOf(thr', a.tid, x) - EatomOf(thr, a.tid, x))
                  = a.evdwl + a.ecoul]_vars

C7_Witness ==
  /\ last.op = "tally"
  /\ last.a.newton_pair
  /\ last.a.eflag_global
  /\ last.a.eflag_atom
  /\ last.a.i >= last.a.nlocal
  /\ last.a.j < last.a.nlocal
  /\ last.a.ecoul # 0
  /\ ntally = 1
  /\ thr.eng_vdwl_thr[last.a.tid] = last.a.evdwl
  /\ 2 * EatomOf(thr, last.a.tid, last.a.i) = last.a.evdwl + last.a.ecoul

\* Number of endpoints of the pair of the call a that are owned.
Owned(a) ==
  (IF a.i < a.nlocal THEN 1 ELSE 0) + (IF a.j < a.nlocal THEN 1 ELSE 0)

\* C8: with newton_pair clear, one ev_tally_thr call for the pair (i, j) adds
\* evdwl/2 and ecoul/2 to the global energies of the thread once per owned
\* endpoint, and (evdwl + ecoul)/2 to the eatom entry of each owned endpoint;
\* the eatom entry of a ghost endpoint is unchanged.
C8_NoNewtonTally ==
  [][(IsTally /\ ~last'.a.newton_pair) =>
      LET a == last'.a
      IN /\ a.eflag_global =>
              /\ 2 * (thr'.eng_vdwl_thr[a.tid] - thr.eng_vdwl_thr[a.tid])
                   = Owned(a) * a.evdwl
              /\ 2 * (thr'.eng_coul_thr[a.tid] - thr.eng_coul_thr[a.tid])
                   = Owned(a) * a.ecoul
         /\ a.eflag_atom =>
              \A x \in {a.i, a.j} :
                2 * (EatomOf(thr', a.tid, x) - EatomOf(thr, a.tid, x))
                  = IF x < a.nlocal THEN a.evdwl + a.ecoul ELSE 0]_vars

C8_Witness ==
  /\ last.op = "tally"
  /\ ~last.a.newton_pair
  /\ last.a.eflag_global
  /\ last.a.eflag_atom
  /\ last.a.i < last.a.nlocal
  /\ last.a.j >= last.a.nlocal
  /\ last.a.ecoul # 0
  /\ ntally = 1
  /\ 2 * thr.eng_vdwl_thr[last.a.tid] = last.a.evdwl
  /\ 2 * thr.eng_coul_thr[last.a.tid] = last.a.ecoul
  /\ 2 * EatomOf(thr, last.a.tid, last.a.i) = last.a.evdwl + last.a.ecoul
  /\ EatomOf(thr, last.a.tid, last.a.j) = 0

\* C9: after an ev_setup_thr call that requested the per-atom virial, the
\* per-atom virial array of every thread has at least nmax rows, so that no
\* row the zeroing loop or a tally indexes lies outside the storage.
C9_VatomRows ==
  (last.op = "setup" /\ evf.vflag_atom) =>
    /\ thr.vatom_n2 >= atom.nmax
    /\ \A t \in Threads, i \in 0 .. (atom.nmax - 1) :
         RowOf(thr.vatom_n2, t, i) \in DOMAIN thr.vatom_thr
    /\ ~oob

\* A step of the model that is an ev_setup_thr call; its flags are evf'.
IsSetup == nsteps' = nsteps + 1

\* C10: ev_setup_thr zeroes, in every thread slot, the energy scalars iff
\* eflag_global, the virial iff vflag_global, eatom_thr[t][0 .. ntotal-1] iff
\* eflag_atom and vatom_thr[t][0 .. ntotal-1] iff vflag_atom; every
\* unrequested category and every per-atom entry at index >= ntotal keeps its
\* value.
C10_SetupZeroes ==
  [][IsSetup =>
      LET ntotal == setup_ntotal(thr_style, atom, force)
      IN \A t \in Threads :
           /\ IF evf'.eflag_global
                THEN /\ thr'.eng_vdwl_thr[t] = 0
                     /\ thr'.eng_coul_thr[t] = 0
                     /\ thr'.eng_bond_thr[t] = 0
                ELSE /\ thr'.eng_vdwl_thr[t] = thr.eng_vdwl_thr[t]
                     /\ thr'.eng_coul_thr[t] = thr.eng_coul_thr[t]
                     /\ thr'.eng_bond_thr[t] = thr.eng_bond_thr[t]
           /\ thr'.virial_thr[t] =
                (IF evf'.vflag_global THEN ZeroSix ELSE thr.virial_thr[t])
           /\ evf'.eflag_atom =>
                \A i \in 0 .. (ntotal - 1) :
                  i < thr'.eatom_n2 /\ EatomOf(thr', t, i) = 0
           /\ evf'.vflag_atom =>
                \A i \in 0 .. (ntotal - 1) :
                  i < thr'.vatom_n2 /\ VatomOf(thr', t, i) = ZeroSix
           /\ \A i \in 0 .. (thr.eatom_n2 - 1) :
                (~evf'.eflag_atom \/ i >= ntotal) =>
                  EatomOf(thr', t, i) = EatomOf(thr, t, i)
           /\ \A i \in 0 .. (thr.vatom_n2 - 1) :
                (~evf'.vflag_atom \/ i >= ntotal) =>
                  VatomOf(thr', t, i) = VatomOf(thr, t, i)]_vars

\* The bytes of the scratch storage of the object o of n threads: 3 energies
\* and 6 virial components a thread, the allocated rows of eatom_thr, and the
\* allocated rows of vatom_thr of 6 doubles each.
Footprint(o, n) ==
  (n * (3 + 6) + Cardinality(DOMAIN o.eatom_thr)
     + 6 * Cardinality(DOMAIN o.vatom_thr)) * SizeofDouble

\* C14: memory_usage_thr returns exactly the byte footprint of the scratch
\* storage currently allocated.
C14_MemoryUsageExact ==
  last.op = "memory" => bytes = Footprint(thr, nthreads)

\* The capacities of the object o2 are not below those of the object o1: the
\* high-water marks and the rows allocated a thread and in all.
CapacityKept(o1, o2) ==
  /\ o2.maxeatom_thr >= o1.maxeatom_thr
  /\ o2.maxvatom_thr >= o1.maxvatom_thr
  /\ o2.eatom_n2 >= o1.eatom_n2
  /\ o2.vatom_n2 >= o1.vatom_n2
  /\ Cardinality(DOMAIN o2.eatom_thr) >= Cardinality(DOMAIN o1.eatom_thr)
  /\ Cardinality(DOMAIN o2.vatom_thr) >= Cardinality(DOMAIN o1.vatom_thr)

\* C13: no ev_setup_thr call lowers a per-atom capacity (mark or allocated
\* rows), whatever nmax is, and each call zeroes the full current extent
\* [0, ntotal) of every category requested in that call.
C13_CapacityMonotone ==
  [][IsSetup =>
      /\ CapacityKept(thr, thr')
      /\ \A t \in Threads :
           /\ evf'.eflag_global =>
                /\ thr'.eng_vdwl_thr[t] = 0
                /\ thr'.eng_coul_thr[t] = 0
                /\ thr'.eng_bond_thr[t] = 0
           /\ evf'.vflag_global => thr'.virial_thr[t] = ZeroSix
           /\ evf'.eflag_atom =>
                \A i \in 0 .. (setup_ntotal(thr_style, atom, force) - 1) :
                  /\ RowOf(thr'.eatom_n2, t, i) \in DOMAIN thr'.eatom_thr
                  /\ i < thr'.eatom_n2
                  /\ EatomOf(thr', t, i) = 0
           /\ evf'.vflag_atom =>
                \A i \in 0 .. (setup_ntotal(thr_style, atom, force) - 1) :
                  /\ RowOf(thr'.vatom_n2, t, i) \in DOMAIN thr'.vatom_thr
                  /\ i < thr'.vatom_n2
                  /\ VatomOf(thr', t, i) = ZeroSix]_vars

\* The target of ev_reduce_thr for the style of the object.
Target == IF thr_style = "PAIR" THEN pair ELSE dihed

\* A step of the model that is an ev_reduce_thr call.
IsReduce == last'.op \in {"reduce", "reduce2"} /\ last'.op # last.op

\* The extent of the per-atom folds: nlocal + nghost if the symmetry flag of
\* the target kind is set, else nlocal.
FoldExtent ==
  IF (IF thr_style = "PAIR" THEN force.newton ELSE force.newton_bond)
    THEN atom.nlocal + atom.nghost
    ELSE atom.nlocal

\* Every thread slot of o has an entry for atom i in eatom_thr / vatom_thr.
EatomRows(o, i) ==
  /\ i < o.eatom_n2
  /\ \A t \in Threads : RowOf(o.eatom_n2, t, i) \in DOMAIN o.eatom_thr
VatomRows(o, i) ==
  /\ i < o.vatom_n2
  /\ \A t \in Threads : RowOf(o.vatom_n2, t, i) \in DOMAIN o.vatom_thr

\* The sum over all thread slots of the entry of atom i.
EatomSum(o, i) == SumTo([t \in Threads |-> EatomOf(o, t, i)], nthreads - 1)
VatomSum(o, i) == SumSixTo([t \in Threads |-> VatomOf(o, t, i)], nthreads - 1)

\* C11: an ev_reduce_thr call (Pair or Dihedral) leaves in every target field
\* it folds the value the field held before plus the sum of the corresponding
\* per-thread accumulator over all nthreads slots: the energies always, the
\* virial under vflag_either, eatom under eflag_atom and vatom under
\* vflag_either and vflag_atom, the per-atom fields for every atom of the
\* fold extent.
C11_AdditiveFold ==
  [][IsReduce =>
      /\ thr_style = "PAIR" =>
           /\ pair'.eng_vdwl =
                pair.eng_vdwl + SumTo(thr.eng_vdwl_thr, nthreads - 1)
           /\ pair'.eng_coul =
                pair.eng_coul + SumTo(thr.eng_coul_thr, nthreads - 1)
      /\ thr_style = "DIHEDRAL" =>
           dihed'.energy = dihed.energy + SumTo(thr.eng_bond_thr, nthreads - 1)
      /\ evf.vflag_either =>
           Target'.virial =
             AddSix(Target.virial, SumSixTo(thr.virial_thr, nthreads - 1))
      /\ evf.eflag_atom =>
           \A i \in 0 .. (FoldExtent - 1) :
             /\ EatomRows(thr, i)
             /\ Target'.eatom[i] = Target.eatom[i] + EatomSum(thr, i)
      /\ (evf.vflag_either /\ evf.vflag_atom) =>
           \A i \in 0 .. (FoldExtent - 1) :
             /\ VatomRows(thr, i)
             /\ Target'.vatom[i] = AddSix(Target.vatom[i], VatomSum(thr, i))]_vars

\* C16: ev_reduce_thr folds the virial only if vflag_either is set, vatom
\* only if vflag_atom is set as well, eatom only if eflag_atom is set, and
\* the per-atom fields only at the indices of [0, ntotal): a field whose flag
\* is clear and every per-atom entry at an index >= ntotal is unchanged, and
\* a field whose flag is set receives its fold (vatom where the rows of
\* vatom_thr exist).
C16_ReduceFlagsFrame ==
  [][IsReduce =>
      /\ IF evf.vflag_either
           THEN Target'.virial =
                  AddSix(Target.virial, SumSixTo(thr.virial_thr, nthreads - 1))
           ELSE Target'.virial = Target.virial
      /\ \A i \in DOMAIN Target.vatom :
           IF evf.vflag_either /\ evf.vflag_atom /\ i < FoldExtent
             THEN VatomRows(thr, i) =>
                    Target'.vatom[i] = AddSix(Target.vatom[i], VatomSum(thr, i))
             ELSE Target'.vatom[i] = Target.vatom[i]
      /\ \A i \in DOMAIN Target.eatom :
           IF evf.eflag_atom /\ i < FoldExtent
             THEN /\ EatomRows(thr, i)
                  /\ Target'.eatom[i] = Target.eatom[i] + EatomSum(thr, i)
             ELSE Target'.eatom[i] = Target.eatom[i]]_vars

C16_Witness ==
  /\ last.op = "reduce2"
  /\ nthreads = 2
  /\ atom = [nlocal |-> 1, nghost |-> 1, nmax |-> 3]
  /\ ~force.newton
  /\ thr_style = "PAIR"
  /\ evf = Flags(FALSE, FALSE, TRUE, TRUE)
  /\ ntally = 2
  /\ thr.virial_thr[0] # ZeroSix
  /\ pair.virial = AddSix(SumSixTo(thr.virial_thr, 1),
                          SumSixTo(thr.virial_thr, 1))
  /\ pair.eatom[0] = 2 * EatomSum(thr, 0)
  /\ pair.eatom[0] # 0
  /\ EatomOf(thr, 0, 1) # 0
  /\ pair.eatom[1] = 0

\* Twice the values of a Pair or Dihedral target.
TwicePair(p) ==
  [eng_vdwl |-> 2 * p.eng_vdwl, eng_coul |-> 2 * p.eng_coul,
   virial |-> AddSix(p.virial, p.virial),
   eatom |-> [i \in DOMAIN p.eatom |-> 2 * p.eatom[i]],
   vatom |-> [i \in DOMAIN p.vatom |-> AddSix(p.vatom[i], p.vatom[i])]]
TwiceDihedral(d) ==
  [energy |-> 2 * d.energy,
   virial |-> AddSix(d.virial, d.virial),
   eatom |-> [i \in DOMAIN d.eatom |-> 2 * d.eatom[i]],
   vatom |-> [i \in DOMAIN d.vatom |-> AddSix(d.vatom[i], d.vatom[i])]]

\* C17: an ev_reduce_thr call leaves every per-thread accumulator unchanged,
\* and a second call without an ev_setup_thr in between adds to the target
\* what the first call added: the target, zero before the first call, holds
\* twice the value the first call left.
C17_ReduceKeepsAccumulators ==
  [][IsReduce =>
      /\ thr' = thr
      /\ last'.op = "reduce2" =>
           /\ pair' = TwicePair(pair)
           /\ dihed' = TwiceDihedral(dihed)]_vars

\* C19: every per-thread value an ev_reduce_thr call folds into its target
\* was zeroed by the ev_setup_thr call of the step: the energies, the virial
\* if vflag_either, eatom over the fold extent if eflag_atom, vatom over the
\* fold extent if vflag_either and vflag_atom.
C19_NoStaleFold ==
  last.op \in {"reduce", "reduce2"} =>
    /\ \A t \in Threads :
         /\ thr_style = "PAIR" =>
              thr0.eng_vdwl_thr[t] = 0 /\ thr0.eng_coul_thr[t] = 0
         /\ thr_style = "DIHEDRAL" => thr0.eng_bond_thr[t] = 0
         /\ evf.vflag_either => thr0.virial_thr[t] = ZeroSix
    /\ evf.eflag_atom =>
         \A i \in 0 .. (FoldExtent - 1) :
           /\ EatomRows(thr0, i)
           /\ \A t \in Threads : EatomOf(thr0, t, i) = 0
    /\ (evf.vflag_either /\ evf.vflag_atom) =>
         \A i \in 0 .. (FoldExtent - 1) :
           /\ VatomRows(thr0, i)
           /\ \A t \in Threads : VatomOf(thr0, t, i) = ZeroSix

\* The arguments a with the four request flags replaced, each either flag
\* being the OR of its global and per-atom flag.
WithFlags(a, eg, vg, ea, va) ==
  [a EXCEPT !.eflag_global = eg, !.eflag_atom = ea, !.eflag_either = eg \/ ea,
            !.vflag_global = vg, !.vflag_atom = va, !.vflag_either = vg \/ va]

\* The ownership test of ev_tally_thr for the endpoint x.
TallyOwns(a, x) == a.newton_pair \/ x < a.nlocal

\* The object o with its energy scalars, its eatom_thr, its virial_thr or its
\* vatom_thr replaced by those of the object q.
WithEng(o, q) ==
  [o EXCEPT !.eng_vdwl_thr = q.eng_vdwl_thr, !.eng_coul_thr = q.eng_coul_thr,
            !.eng_bond_thr = q.eng_bond_thr]
WithEatom(o, q) == [o EXCEPT !.eatom_thr = q.eatom_thr]
WithVirial(o, q) == [o EXCEPT !.virial_thr = q.virial_thr]
WithVatom(o, q) == [o EXCEPT !.vatom_thr = q.vatom_thr]

\* C18: in ev_tally_thr the entry of an endpoint in eatom changes iff the
\* per-atom energy flag is set and the endpoint passes the ownership test,
\* and the one in vatom iff the per-atom virial flag is set and it passes the
\* test (where the entry exists); and the same call with one flag flipped
\* differs at most in the accumulator of that flag (the energy scalars for
\* eflag_global, eatom for eflag_atom, virial for vflag_global, vatom for
\* vflag_atom), with both virial flags flipped at most in virial and vatom,
\* and with both energy flags flipped at most in the energies and eatom.
C18_FlagsIndependent ==
  [][IsTally =>
      /\ \A x \in {last'.a.i, last'.a.j} :
           /\ (x < thr.eatom_n2
                 /\ RowOf(thr.eatom_n2, last'.a.tid, x) \in DOMAIN thr.eatom_thr)
                => ((EatomOf(thr', last'.a.tid, x) # EatomOf(thr, last'.a.tid, x))
                      <=> (last'.a.eflag_atom /\ TallyOwns(last'.a, x)))
           /\ (x < thr.vatom_n2
                 /\ RowOf(thr.vatom_n2, last'.a.tid, x) \in DOMAIN thr.vatom_thr)
                => ((VatomOf(thr', last'.a.tid, x) # VatomOf(thr, last'.a.tid, x))
                      <=> (last'.a.vflag_atom /\ TallyOwns(last'.a, x)))
      /\ WithEng(ev_tally_thr(thr,
             WithFlags(last'.a, ~evf.eflag_global, evf.vflag_global,
                       evf.eflag_atom, evf.vflag_atom)), thr') = thr'
      /\ WithEatom(ev_tally_thr(thr,
             WithFlags(last'.a, evf.eflag_global, evf.vflag_global,
                       ~evf.eflag_atom, evf.vflag_atom)), thr') = thr'
      /\ WithVirial(ev_tally_thr(thr,
             WithFlags(last'.a, evf.eflag_global, ~evf.vflag_global,
                       evf.eflag_atom, evf.vflag_atom)), thr') = thr'
      /\ WithVatom(ev_tally_thr(thr,
             WithFlags(last'.a, evf.eflag_global, evf.vflag_global,
                       evf.eflag_atom, ~evf.vflag_atom)), thr') = thr'
      /\ WithVatom(WithVirial(ev_tally_thr(thr,
             WithFlags(last'.a, evf.eflag_global, ~evf.vflag_global,
                       evf.eflag_atom, ~evf.vflag_atom)), thr'), thr') = thr'
      /\ WithEatom(WithEng(ev_tally_thr(thr,
             WithFlags(last'.a, ~evf.eflag_global, evf.vflag_global,
                       ~evf.eflag_atom, evf.vflag_atom)), thr'), thr') = thr']_vars

C18_Witness ==
  /\ last.op = "tally"
  /\ ntally = 1
  /\ evf = Flags(FALSE, FALSE, TRUE, TRUE)
  /\ ~last.a.newton_pair
  /\ last.a.i < last.a.nlocal
  /\ last.a.j >= last.a.nlocal
  /\ 2 * EatomOf(thr, last.a.tid, last.a.i) = last.a.evdwl + last.a.ecoul
  /\ VatomOf(thr, last.a.tid, last.a.i) = HalfSix(tally_v(last.a))
  /\ thr.eng_vdwl_thr = thr0.eng_vdwl_thr
  /\ thr.virial_thr = thr0.virial_thr

\* C20: in a step whose ev_setup_thr was called with all four flags, after
\* the ev_tally_thr calls made so far, every thread slot t has its per-atom
\* entries over the extent [0, ntotal) of the step, the per-atom energies of
\* the slot sum to eng_vdwl_thr[t] + eng_coul_thr[t], and the per-atom
\* virials sum, component by component, to virial_thr[t].
C20_PerAtomSumsToGlobal ==
  (last.op = "tally" /\ evf = Flags(TRUE, TRUE, TRUE, TRUE)) =>
    LET ntotal == setup_ntotal(thr_style, atom, force)
    IN /\ \A i \in 0 .. (ntotal - 1) : EatomRows(thr, i) /\ VatomRows(thr, i)
       /\ \A t \in Threads :
            /\ SumTo([i \in 0 .. (ntotal - 1) |-> EatomOf(thr, t, i)],
                      ntotal - 1)
                 = thr.eng_vdwl_thr[t] + thr.eng_coul_thr[t]
            /\ SumSixTo([i \in 0 .. (ntotal - 1) |-> VatomOf(thr, t, i)],
                         ntotal - 1)
                 = thr.virial_thr[t]

====
